---------------------------- MODULE Spec2Model ----------------------------
(***************************************************************************)
(* The "Hello Genetic Programming" notebook (src/unnamed/part_000): the    *)
(* string-evolution loop.  Characters are modelled by their ordinals, a    *)
(* DNA is a sequence of ordinals, a candidate is a dict object living in   *)
(* `heap` under an object id, and gene_pool / fittest hold object ids, as  *)
(* the Python lists hold references.                                       *)
(*                                                                         *)
(* Specifications: Spec (the cell, MaxGen rounds followed), LiveSpec (the  *)
(* loop without a bound on rounds, fair draws), SizedSpec (a pool of any   *)
(* size up to POPULATION), LowSpec (a target at the low end of chr's       *)
(* range), MutateSpec (the first round as far as mutate's return) and      *)
(* FitnessSpec (calc_fitness called on its own).                           *)
(***************************************************************************)
EXTENDS Integers, Sequences, FiniteSets, TLC

(* ------------------------------ bounds -------------------------------- *)

\* size of the pool; the notebook sets 20, the model is scaled down
POPULATION == 2

\* generations the model follows before it stops exploring
MaxGen == 3

\* longest string the model hands to calc_fitness when it is called on its own
MaxLen == 2

(* ----------------------------- constants ------------------------------ *)

\* string.letters + '!, '  (Python 2, C locale), as ordinals
GENES == (97..122) \cup (65..90) \cup {33, 44, 32}

\* the characters the model lets random.choice(GENES) draw: "A", "B"
GeneSample == {c \in GENES : c \in {65, 66}}

\* the targets the model runs with: "AB"
Targets == {<<65, 66>>}

\* the perturbations random.randint(-1, 1) can return
Nudges == {-1, 0, 1}

\* the value of a variable that is not bound yet
None == 0

VARIABLES
    target,      \* the target string
    heap,        \* object id -> candidate dict [dna, fitness], live objects only
    gene_pool,   \* list of candidate ids
    fittest,     \* list of candidate ids, one appended per generation
    generation,  \* the generation counter
    child,       \* id of the last child mutate returned, or None
    pc           \* "populate", "evolve", "done" (break), "error" (exception);
                 \* "call", "returned" when a function is called on its own

vars == <<target, heap, gene_pool, fittest, generation, child, pc>>

(* ------------------------- helpers on sequences ----------------------- *)

Min(a, b) == IF a < b THEN a ELSE b

Range(s) == {s[i] : i \in DOMAIN s}

\* Python s[a:b] for 0 <= a, 0 <= b (0-based, end exclusive, clamped to len(s))
Slice(s, a, b) ==
    LET hi == Min(b, Len(s))
        lo == Min(a, Len(s))
    IN  IF hi <= lo THEN <<>> ELSE SubSeq(s, lo + 1, hi)

\* Python s[a:b] = r for 0 <= a <= b: the slice is replaced by r, whatever its length
SliceAssign(s, a, b, r) == Slice(s, 0, a) \o r \o Slice(s, b, Len(s))

(* ------------------------------ ord / chr ----------------------------- *)

\* chr(x) raises ValueError unless x is in range(256)
chr_raises(x) == x < 0 \/ x > 255

(* ------------------------------ calc_fitness -------------------------- *)

\* target[i] raises IndexError when the target is shorter than the source
calc_fitness_raises(source, tgt) == Len(tgt) < Len(source)

RECURSIVE FitSum(_, _, _)
FitSum(source, tgt, n) ==
    IF n = 0 THEN 0
    ELSE FitSum(source, tgt, n - 1) + (tgt[n] - source[n]) * (tgt[n] - source[n])

RECURSIVE PlainSum(_, _, _)
PlainSum(source, tgt, n) ==
    IF n = 0 THEN 0
    ELSE PlainSum(source, tgt, n - 1) + (tgt[n] - source[n])

\* calc_fitness with the "** 2" left out: the differences are summed as they are
calc_fitness_unsquared(source, tgt) == PlainSum(source, tgt, Len(source))

\* calc_fitness with xrange(len(source) - 1): the last position is left out
calc_fitness_skip_last(source, tgt) ==
    IF Len(source) = 0 THEN 0 ELSE FitSum(source, tgt, Len(source) - 1)

RECURSIVE CubeSum(_, _, _)
CubeSum(source, tgt, n) ==
    IF n = 0 THEN 0
    ELSE CubeSum(source, tgt, n - 1)
            + (tgt[n] - source[n]) * (tgt[n] - source[n]) * (tgt[n] - source[n])

\* calc_fitness with "** 3" for "** 2"
calc_fitness_cubed(source, tgt) == CubeSum(source, tgt, Len(source))

RECURSIVE OverSum(_, _, _)
OverSum(source, tgt, n) ==
    IF n = 0 THEN 0
    ELSE OverSum(source, tgt, n - 1)
            + (IF tgt[n] > source[n]
               THEN (tgt[n] - source[n]) * (tgt[n] - source[n]) ELSE 0)

\* calc_fitness counting only the positions where the source is below the target
calc_fitness_onesided(source, tgt) == OverSum(source, tgt, Len(source))

\* the loop runs over xrange(len(source))
calc_fitness(source, tgt) == FitSum(source, tgt, Len(source))


(* -------------------------------- mutate ------------------------------ *)

\* the "if start > stop: stop, start = start, stop" of mutate
CrossStart(start, stop) == IF start > stop THEN stop ELSE start

CrossStop(start, stop) == IF start > stop THEN start ELSE stop

\* the crossover with parent2's slice taken one late: [start + 1:stop]
crossover_short(dna1, dna2, start, stop) ==
    LET a == CrossStart(start, stop)
        b == CrossStop(start, stop)
    IN  SliceAssign(dna1, a, b, Slice(dna2, a + 1, b))

\* the crossover with the position at stop copied too: [start:stop + 1]
crossover_inclusive(dna1, dna2, start, stop) ==
    LET a == CrossStart(start, stop)
        b == CrossStop(start, stop)
    IN  SliceAssign(dna1, a, b + 1, Slice(dna2, a, b + 1))

\* child_dna = parent1['dna'][:] ; child_dna[start:stop] = parent2['dna'][start:stop]
crossover(dna1, dna2, start, stop) ==
    LET a == CrossStart(start, stop)
        b == CrossStop(start, stop)
    IN  SliceAssign(dna1, a, b, Slice(dna2, a, b))

\* the mutation with the "+ random.randint(-1, 1)" left out
nudge_none(dna, char_pos, d) == dna

\* the mutation keeping the character when the new one would not be in GENES
nudge_clamped(dna, char_pos, d) ==
    IF dna[char_pos + 1] + d \in GENES
    THEN [dna EXCEPT ![char_pos + 1] = dna[char_pos + 1] + d]
    ELSE dna

\* the mutation with random.randint(0, 1): the character is never lowered
nudge_up(dna, char_pos, d) ==
    [dna EXCEPT ![char_pos + 1] = dna[char_pos + 1] + (IF d < 0 THEN -d ELSE d)]

\* child_dna[char_pos] = chr(ord(child_dna[char_pos]) + random.randint(-1, 1))
nudge(dna, char_pos, d) == [dna EXCEPT ![char_pos + 1] = dna[char_pos + 1] + d]

\* the rest of mutate raises: chr() out of range (ValueError), or calc_fitness
\* runs off the target (IndexError)
point_raises(crossed, tgt, char_pos, d) ==
    \/ chr_raises(crossed[char_pos + 1] + d)
    \/ calc_fitness_raises(nudge(crossed, char_pos, d), tgt)

\* the rest of mutate with calc_fitness called before the point mutation: the
\* fitness is that of the crossed-over child_dna
mutate_point_stale(crossed, tgt, char_pos, d) ==
    [dna |-> nudge(crossed, char_pos, d),
     fitness |-> calc_fitness(crossed, tgt)]

\* the rest of mutate, from the crossed-over child_dna: one position nudged,
\* the fitness computed, the dict returned
mutate_point(crossed, tgt, char_pos, d) ==
    [dna |-> nudge(crossed, char_pos, d),
     fitness |-> calc_fitness(nudge(crossed, char_pos, d), tgt)]

\* the dict mutate returns for two parents and its four draws
mutate(p1, p2, tgt, start, stop, char_pos, d) ==
    mutate_point(crossover(p1.dna, p2.dna, start, stop), tgt, char_pos, d)

\* the heap once the dict c that mutate returns is an object, under the id `new`
store(h, new, c) == [i \in DOMAIN h \cup {new} |-> IF i = new THEN c ELSE h[i]]

\* mutate raises for these parents and draws
mutate_raises(p1, p2, tgt, start, stop, char_pos, d) ==
    point_raises(crossover(p1.dna, p2.dna, start, stop), tgt, char_pos, d)

\* mutate with "child_dna = parent1['dna']", the "[:]" left out: the list the
\* child is given is parent1's own
mutate_heap_shared(h, new, id1, id2, tgt, start, stop, char_pos, d) ==
    [store(h, new, mutate(h[id1], h[id2], tgt, start, stop, char_pos, d))
        EXCEPT ![id1].dna = mutate(h[id1], h[id2], tgt, start, stop, char_pos, d).dna]

\* the heap after mutate(parent1, parent2, target) returned, the parents being
\* the objects id1 and id2 and the returned dict the object `new`: child_dna
\* is a copy (parent1['dna'][:]) and parent2['dna'] is only read, so the one
\* change is the new dict
mutate_heap(h, new, id1, id2, tgt, start, stop, char_pos, d) ==
    store(h, new, mutate(h[id1], h[id2], tgt, start, stop, char_pos, d))

(* --------------------------- random_parent ---------------------------- *)

\* gene_pool[index] for index = random.randint(0, len(gene_pool) - 1)
random_parent(pool, index) == pool[index + 1]

(* ------------------------------ the sort ------------------------------ *)

\* how many members of s have a fitness <= f
CountLeq(h, s, f) == Cardinality({i \in DOMAIN s : h[s[i]].fitness <= f})

\* x put into the ascending list s before every member that is not smaller:
\* a sort that turns the order of equal members round
InsertSorted_first(h, s, x) ==
    LET k == Cardinality({i \in DOMAIN s : h[s[i]].fitness < h[x].fitness})
    IN  SubSeq(s, 1, k) \o <<x>> \o SubSeq(s, k + 1, Len(s))

\* x put into the ascending list s behind every member that is not greater
InsertSorted(h, s, x) ==
    LET k == CountLeq(h, s, h[x].fitness)
    IN  SubSeq(s, 1, k) \o <<x>> \o SubSeq(s, k + 1, Len(s))

RECURSIVE SortPrefix(_, _, _)
SortPrefix(h, pool, n) ==
    IF n = 0 THEN <<>>
    ELSE InsertSorted(h, SortPrefix(h, pool, n - 1), pool[n])

\* gene_pool.sort(key=lambda candidate: candidate['fitness']): stable, ascending
sort_pool(h, pool) == SortPrefix(h, pool, Len(pool))

(* ----------------------- replacement and the check -------------------- *)

\* the replacement writing to gene_pool[0] instead of gene_pool[-1]
replace_first(h, pool, c) ==
    IF h[c].fitness < h[pool[Len(pool)]].fitness
    THEN [pool EXCEPT ![1] = c]
    ELSE pool

\* the replacement comparing with <= instead of <
replace_worst_or_equal(h, pool, c) ==
    IF h[c].fitness <= h[pool[Len(pool)]].fitness
    THEN [pool EXCEPT ![Len(pool)] = c]
    ELSE pool

\* the replacement overwriting every member the child beats
replace_all_worse(h, pool, c) ==
    [i \in DOMAIN pool |-> IF h[c].fitness < h[pool[i]].fitness THEN c ELSE pool[i]]

\* the replacement appending the child instead of overwriting gene_pool[-1]
replace_by_append(h, pool, c) ==
    IF h[c].fitness < h[pool[Len(pool)]].fitness
    THEN Append(pool, c)
    ELSE pool

\* the replacement without the comparison: gene_pool[-1] = child in every round
replace_always(h, pool, c) == [pool EXCEPT ![Len(pool)] = c]

\* the replacement dropping gene_pool[-1] and putting the child at index 0
replace_worst_at_front(h, pool, c) ==
    IF h[c].fitness < h[pool[Len(pool)]].fitness
    THEN <<c>> \o SubSeq(pool, 1, Len(pool) - 1)
    ELSE pool

\* if child['fitness'] < gene_pool[-1]['fitness']: gene_pool[-1] = child
replace_worst(h, pool, c) ==
    IF h[c].fitness < h[pool[Len(pool)]].fitness
    THEN [pool EXCEPT ![Len(pool)] = c]
    ELSE pool

\* the termination check looking at every member instead of gene_pool[0]
goal_anywhere(h, pool) == \E i \in DOMAIN pool : h[pool[i]].fitness = 0

\* if gene_pool[0]['fitness'] == 0: break
goal_reached(h, pool) == h[pool[1]].fitness = 0

(* ------------------------------ the heap ------------------------------ *)

\* the smallest id no object of h has
NewId(h) ==
    CHOOSE i \in 1..(Cardinality(DOMAIN h) + 1) :
        /\ i \notin DOMAIN h
        /\ \A j \in 1..(i - 1) : j \in DOMAIN h

\* the ids reachable from the notebook's variables
Live(pool, fit, c) == (Range(pool) \cup Range(fit) \cup {c}) \ {None}

\* h without the objects nothing refers to any more
Collect(h, live) == [i \in live \cap DOMAIN h |-> h[i]]

(* ------------------------------- actions ------------------------------ *)

Init ==
    /\ target \in Targets
    /\ heap = <<>>
    /\ gene_pool = <<>>
    /\ fittest = <<>>
    /\ generation = 1
    /\ child = None
    /\ pc = "populate"

\* one round of "for i in xrange(0, POPULATION)": a candidate with the drawn dna
Populate(dna) ==
    /\ pc = "populate"
    /\ Len(gene_pool) < POPULATION
    /\ ~calc_fitness_raises(dna, target)
    /\ LET new == NewId(heap)
           candidate == [dna |-> dna, fitness |-> calc_fitness(dna, target)]
       IN  /\ heap' = [i \in DOMAIN heap \cup {new} |->
                          IF i = new THEN candidate ELSE heap[i]]
           /\ gene_pool' = Append(gene_pool, new)
    /\ pc' = IF Len(gene_pool) + 1 = POPULATION THEN "evolve" ELSE "populate"
    /\ UNCHANGED <<target, fittest, generation, child>>

\* what stands for the child when mutate raised
Raised == [dna |-> <<>>, fitness |-> -1]

\* the indices random_parent can draw: random.randint(0, len(gene_pool) - 1)
ParentIndices(pool) == 0..(Len(pool) - 1)

\* the values start and stop can take: random.randint(0, len(parent2['dna']) - 1)
CutIndices(p2) == 0..(Len(p2.dna) - 1)

\* the values char_pos can take: random.randint(0, len(child_dna) - 1)
PointIndices(crossed) == 0..(Len(crossed) - 1)

\* what mutate can come to from the crossed-over child_dna, over char_pos and
\* the nudge: the dict it returns, or Raised
PointOutcomes(crossed, tgt) ==
    {IF point_raises(crossed, tgt, char_pos, d) THEN Raised
     ELSE mutate_point(crossed, tgt, char_pos, d) :
        char_pos \in PointIndices(crossed), d \in Nudges}

\* what mutate(p1, p2, target) can come to, over start and stop too
MutateOutcomes(p1, p2, tgt) ==
    UNION {PointOutcomes(crossover(p1.dna, p2.dna, start, stop), tgt) :
              start \in CutIndices(p2), stop \in CutIndices(p2)}

\* what the round's call of mutate can come to, over the draw of the parents too
Outcomes(sorted) ==
    UNION {MutateOutcomes(heap[random_parent(sorted, index1)],
                          heap[random_parent(sorted, index2)], target) :
              index1 \in ParentIndices(sorted), index2 \in ParentIndices(sorted)}

\* the record step replacing the history by its newest entry
record_only_last(fit, sorted) == <<sorted[1]>>

\* the record step appending gene_pool[-1] instead of gene_pool[0]
record_worst(fit, sorted) == Append(fit, sorted[Len(sorted)])

\* fittest.append(gene_pool[0]), the pool being sorted
record(fit, sorted) == Append(fit, sorted[1])

\* One round of "while True", `sorted` being the pool once sorted, `new` the
\* id of the dict mutate creates and c what the call of mutate came to.
\* Either mutate returned (replacement, termination check, counter) or it
\* raised and the cell stops.  The loop writes generation and fittest and
\* never reads them: `follow` says whether the model still follows them.
Round(sorted, new, c, follow) ==
    /\ pc = "evolve"
    /\ fittest' = IF follow THEN record(fittest, sorted) ELSE fittest
    /\ IF c = Raised
       THEN /\ gene_pool' = sorted
            /\ heap' = Collect(heap, Live(sorted, fittest', child))
            /\ pc' = "error"
            /\ UNCHANGED <<generation, child>>
       ELSE \E h1 \in {store(heap, new, c)} :
               /\ child' = new
               /\ gene_pool' = replace_worst(h1, sorted, new)
               /\ heap' = Collect(h1, Live(gene_pool', fittest', new))
               /\ IF goal_reached(h1, gene_pool')
                  THEN pc' = "done" /\ generation' = generation
                  ELSE /\ pc' = "evolve"
                       /\ generation' = IF follow THEN generation + 1 ELSE generation
    /\ UNCHANGED target

\* one round of the loop, whatever it draws; the model follows MaxGen rounds
Generation ==
    /\ pc = "evolve"
    /\ generation <= MaxGen
    /\ \E sorted \in {sort_pool(heap, gene_pool)} :
       \E c \in Outcomes(sorted) :
          Round(sorted, NewId(heap), c, TRUE)

PopulateStep == \E dna \in [1..Len(target) -> GeneSample] : Populate(dna)

Next ==
    \/ PopulateStep
    \/ Generation

Spec == Init /\ [][Next]_vars

(* ------------------- the loop without a bound on rounds --------------- *)

\* One round with no bound on the number of rounds: past MaxGen rounds the
\* counter and the history are left as they are.
EvolveStep ==
    /\ pc = "evolve"
    /\ \E sorted \in {sort_pool(heap, gene_pool)} :
       \E c \in Outcomes(sorted) :
          Round(sorted, NewId(heap), c, generation <= MaxGen)

LiveNext ==
    \/ PopulateStep
    \/ EvolveStep

\* a round whose child is admitted to the pool
AcceptingRound == EvolveStep /\ pc' # "error" /\ child' \in Range(gene_pool')

\* some draws of mutate(p1, p2, target) give a child that the replacement
\* step puts into the sorted pool
CanAdmit(sorted, new, p1, p2) ==
    \E start \in CutIndices(p2) : \E stop \in CutIndices(p2) :
    \E crossed \in {crossover(p1.dna, p2.dna, start, stop)} :
    \E char_pos \in PointIndices(crossed) : \E d \in Nudges :
       /\ ~point_raises(crossed, target, char_pos, d)
       /\ new \in Range(replace_worst(
              store(heap, new, mutate_point(crossed, target, char_pos, d)),
              sorted, new))

\* ENABLED <<AcceptingRound>>_vars, computed from the state: mutate can return
\* a child that the replacement step puts into the pool
CanAccept ==
    /\ pc = "evolve"
    /\ \E sorted \in {sort_pool(heap, gene_pool)} :
       \E new \in {NewId(heap)} :
       \E index1 \in ParentIndices(sorted) : \E index2 \in ParentIndices(sorted) :
          CanAdmit(sorted, new, heap[random_parent(sorted, index1)],
                                heap[random_parent(sorted, index2)])

\* <<AcceptingRound>>_vars, read off a step of the loop
RoundAccepts == pc = "evolve" /\ pc' # "error" /\ child' \in Range(gene_pool')

\* random.randint keeps returning every value of its range, so a draw that
\* stays possible is made in the end.  While no child is admitted the sorted
\* pool stays as it is, and so do the draws that would admit one: fairness to
\* every single draw then gives fairness to the admitting rounds, which is what
\* is stated here.  The for loop and the while loop run on.  The last two
\* conjuncts are WF_vars(EvolveStep) and WF_vars(AcceptingRound) written out,
\* with ENABLED computed from the state (EnabledEvolve, EnabledAccept).
Fairness ==
    /\ WF_vars(PopulateStep)
    /\ ([]<>(pc # "evolve") \/ []<><<pc = "evolve">>_vars)
    /\ ([]<>(~CanAccept) \/ []<><<RoundAccepts>>_vars)

LiveSpec == Init /\ [][LiveNext]_vars /\ Fairness

\* the written-out fairness conditions use the right enabling conditions
EnabledEvolve == (pc = "evolve") <=> ENABLED <<EvolveStep>>_vars

EnabledAccept == CanAccept <=> ENABLED <<AcceptingRound>>_vars

(* ------------------------ any size of the pool ------------------------ *)

\* One round of "for i in xrange(0, N)" for a pool of N candidates, N being
\* any size from 1 to POPULATION: the loop is over once N candidates are built.
PopulateSized(dna, N) ==
    /\ pc = "populate"
    /\ Len(gene_pool) < N
    /\ ~calc_fitness_raises(dna, target)
    /\ \E new \in {NewId(heap)} :
          /\ heap' = store(heap, new,
                          [dna |-> dna, fitness |-> calc_fitness(dna, target)])
          /\ gene_pool' = Append(gene_pool, new)
    /\ pc' = IF Len(gene_pool) + 1 = N THEN "evolve" ELSE "populate"
    /\ UNCHANGED <<target, fittest, generation, child>>

PopulateSizedStep ==
    \E N \in 1..POPULATION : \E dna \in [1..Len(target) -> GeneSample] :
       PopulateSized(dna, N)

SizedNext ==
    \/ PopulateSizedStep
    \/ Generation

\* the cell run with a pool of any size from 1 to POPULATION
SizedSpec == Init /\ [][SizedNext]_vars

(* -------------------- a target at the edge of chr's range ------------- *)

\* a one-character target with the lowest ordinal a str can hold: "\x00"
LowTargets == {<<0>>}

\* the start of the evolution cell for such a target
LowInit ==
    /\ target \in LowTargets
    /\ heap = <<>>
    /\ gene_pool = <<>>
    /\ fittest = <<>>
    /\ generation = 1
    /\ child = None
    /\ pc = "populate"

\* the cell run with that target, the loop going on for as long as it does
LowSpec == LowInit /\ [][LiveNext]_vars

(* ---------------------- the round as far as mutate ------------------- *)

\* a three-character target, so that a crossover can copy two positions: "ABA"
MutTargets == {<<65, 66, 65>>}

\* the start of the evolution cell for such a target
MutInit ==
    /\ target \in MutTargets
    /\ heap = <<>>
    /\ gene_pool = <<>>
    /\ fittest = <<>>
    /\ generation = 1
    /\ child = None
    /\ pc = "populate"

\* The first round from the sort to "child = mutate(parent1, parent2, target)":
\* the pool is sorted, its first member recorded, the parents drawn and mutate
\* called with its four draws.  The state it leaves is the one in which
\* mutate has just returned ("returned") or raised ("error").
Breed(index1, index2, start, stop, char_pos, d) ==
    /\ pc = "evolve"
    /\ \E sorted \in {sort_pool(heap, gene_pool)} :
       \E id1 \in {random_parent(sorted, index1)} :
       \E id2 \in {random_parent(sorted, index2)} :
          /\ gene_pool' = sorted
          /\ fittest' = record(fittest, sorted)
          /\ IF mutate_raises(heap[id1], heap[id2], target, start, stop, char_pos, d)
             THEN /\ pc' = "error"
                  /\ UNCHANGED <<heap, child>>
             ELSE /\ heap' = mutate_heap(heap, NewId(heap), id1, id2, target,
                                         start, stop, char_pos, d)
                  /\ child' = NewId(heap)
                  /\ pc' = "returned"
    /\ UNCHANGED <<target, generation>>

\* the round as far as mutate, whatever it draws
BreedStep ==
    \E sorted \in {sort_pool(heap, gene_pool)} :
    \E index1 \in ParentIndices(sorted) : \E index2 \in ParentIndices(sorted) :
    \E p1 \in {heap[random_parent(sorted, index1)]} :
    \E p2 \in {heap[random_parent(sorted, index2)]} :
    \E start \in CutIndices(p2) : \E stop \in CutIndices(p2) :
    \E char_pos \in PointIndices(crossover(p1.dna, p2.dna, start, stop)) :
    \E d \in Nudges :
       Breed(index1, index2, start, stop, char_pos, d)

MutateNext ==
    \/ PopulateStep
    \/ BreedStep

MutateSpec == MutInit /\ [][MutateNext]_vars

(* ------------------------ calc_fitness on its own --------------------- *)

\* the characters of the strings calc_fitness is called with: "A", "B", "C"
FitChars == {65, 66, 67}

\* the strings calc_fitness is called with, the empty one included
FitStrings == UNION {[1..n -> FitChars] : n \in 0..MaxLen}

\* a state in which nothing has been called yet
FitInit ==
    /\ target \in FitStrings
    /\ heap = <<>>
    /\ gene_pool = <<>>
    /\ fittest = <<>>
    /\ generation = 1
    /\ child = None
    /\ pc = "call"

\* fitness = calc_fitness(dna, target) ; candidate = {...} ;
\* gene_pool.append(candidate), for a dna of any length: the candidate is
\* built with what calc_fitness returned, or calc_fitness raised
CallFitness(source) ==
    /\ pc = "call"
    /\ IF calc_fitness_raises(source, target)
       THEN /\ pc' = "error"
            /\ UNCHANGED <<heap, gene_pool>>
       ELSE \E new \in {NewId(heap)} :
               /\ heap' = store(heap, new,
                               [dna |-> source,
                                fitness |-> calc_fitness(source, target)])
               /\ gene_pool' = Append(gene_pool, new)
               /\ pc' = "returned"
    /\ UNCHANGED <<target, fittest, generation, child>>

CallFitnessStep == \E source \in FitStrings : CallFitness(source)

FitnessSpec == FitInit /\ [][CallFitnessStep]_vars

(* ------------------------- words for the claims ----------------------- *)

\* the pool as the round's sort leaves it
Sorted == sort_pool(heap, gene_pool)

\* the fitness of the last member of the sorted pool
WorstFitness == heap[Sorted[Len(Sorted)]].fitness

\* a step that is one round of the loop in which mutate returned
RoundStep == pc = "evolve" /\ pc' # "error" /\ vars' # vars

\* the pool is in ascending order of fitness
IsSorted(h, pool) ==
    \A i \in 1..(Len(pool) - 1) : h[pool[i]].fitness <= h[pool[i + 1]].fitness

\* some member of the pool has fitness 0
HasZero(h, pool) == \E i \in DOMAIN pool : h[pool[i]].fitness = 0

\* at least one round has run
AfterRound == pc \in {"evolve", "done"} /\ Len(fittest) > 0

\* calc_fitness has returned for a source as long as the target
ReturnedEqualLength ==
    /\ pc = "returned"
    /\ Len(heap[gene_pool[1]].dna) = Len(target)

\* the sum, over a set of positions, of the squared differences of the ordinals
RECURSIVE SquaresOver(_, _, _)
SquaresOver(positions, g, t) ==
    IF positions = {} THEN 0
    ELSE LET i == CHOOSE j \in positions : TRUE
         IN  (t[i] - g[i]) * (t[i] - g[i]) + SquaresOver(positions \ {i}, g, t)

\* the character the claimed child has at position i (0-based): B's inside
\* the range start..stop-1 (start and stop put in order), A's outside it, and
\* d more than that at position p
ClaimedChar(A, B, start, stop, p, d, i) ==
    LET lo == IF start <= stop THEN start ELSE stop
        hi == IF start <= stop THEN stop ELSE start
        crossed == IF lo <= i /\ i < hi THEN B[i + 1] ELSE A[i + 1]
    IN  IF i = p THEN crossed + d ELSE crossed

\* a step in which mutate was called and returned
BreedReturned == pc = "evolve" /\ pc' = "returned"

\* the lists that hold the members of pool, each once
PermsOf(pool) ==
    {s \in [1..Len(pool) -> Range(pool)] : Range(s) = Range(pool)}

\* the index of the member x in the list s
IndexIn(s, x) == CHOOSE k \in DOMAIN s : s[k] = x

\* s is pool in ascending order of fitness, members of equal fitness in the
\* order they have in pool
StableSorted(h, pool, s) ==
    /\ \A i \in 1..(Len(s) - 1) : h[s[i]].fitness <= h[s[i + 1]].fitness
    /\ \A i \in DOMAIN pool : \A j \in DOMAIN pool :
          (i < j /\ h[pool[i]].fitness = h[pool[j]].fitness)
             => IndexIn(s, pool[i]) < IndexIn(s, pool[j])

\* the sum of the fitnesses of the first n members of the pool
RECURSIVE TotalFitness(_, _, _)
TotalFitness(h, pool, n) ==
    IF n = 0 THEN 0 ELSE TotalFitness(h, pool, n - 1) + h[pool[n]].fitness

\* the highest fitness in the pool
MaxFitness(h, pool) ==
    CHOOSE f \in {h[m].fitness : m \in Range(pool)} :
        \A m \in Range(pool) : h[m].fitness <= f

(* -------------------------------- claims ------------------------------ *)

\* C1: the fitness recorded in fittest never increases from one generation
\* to the next.
C1_ElitismMonotone ==
    \A g \in 1..(Len(fittest) - 1) :
        heap[fittest[g + 1]].fitness <= heap[fittest[g]].fitness

\* a history in which the recorded best got strictly better
C1_Witness ==
    /\ Len(fittest) >= 2
    /\ heap[fittest[Len(fittest)]].fitness < heap[fittest[1]].fitness

\* C2: a round whose child is not strictly fitter than the last member of the
\* sorted pool leaves the pool as the sort left it: same members, same order,
\* each member unchanged.
C2_RejectedChildLeavesPool ==
    [][(RoundStep /\ heap'[child'].fitness >= WorstFitness)
          => /\ gene_pool' = Sorted
             /\ \A i \in DOMAIN Sorted : heap'[Sorted[i]] = heap[Sorted[i]]]_vars

\* a round has just discarded its child, one as fit as the worst member
C2_Witness ==
    /\ AfterRound
    /\ child # None
    /\ child \notin Range(gene_pool)
    /\ heap[child].fitness = heap[gene_pool[Len(gene_pool)]].fitness

\* C3: a round whose child is strictly fitter than the last member of the
\* sorted pool puts the child at the last index and leaves every other index
\* as it was; no round changes more than one index.
C3_SoleReplacement ==
    [][RoundStep
          => /\ heap'[child'].fitness < WorstFitness
                => /\ Len(gene_pool') = Len(Sorted)
                   /\ gene_pool'[Len(Sorted)] = child'
                   /\ child' \notin Range(Sorted)
                   /\ \A i \in 1..(Len(Sorted) - 1) :
                         /\ gene_pool'[i] = Sorted[i]
                         /\ heap'[Sorted[i]] = heap[Sorted[i]]
             /\ Cardinality({i \in DOMAIN Sorted : gene_pool'[i] # Sorted[i]}) <= 1]_vars

\* a round has just put its child at the last index, fitter than the first member
C3_Witness ==
    /\ AfterRound
    /\ child = gene_pool[Len(gene_pool)]
    /\ heap[child].fitness < heap[gene_pool[1]].fitness

\* C4: once the pool is built it holds exactly POPULATION candidates, whether
\* children were admitted or discarded.
C4_PopulationSize == pc # "populate" => Len(gene_pool) = POPULATION

\* two rounds have run, the last one admitted its child
C4_Witness ==
    /\ Len(fittest) >= 2
    /\ child \in Range(gene_pool)
    /\ Len(gene_pool) = POPULATION

\* C5: every DNA is as long as the target: of the initial candidates, of the
\* members of the pool, of the entries of fittest, of the last child, and of
\* every child mutate can return in the next round.
C5_GenomeLength ==
    /\ \A i \in DOMAIN heap : Len(heap[i].dna) = Len(target)
    /\ Range(gene_pool) \cup Range(fittest) \cup ({child} \ {None}) \subseteq DOMAIN heap
    /\ pc = "evolve" =>
          \A c \in Outcomes(Sorted) \ {Raised} : Len(c.dna) = Len(target)

\* a child that mutate built is in the pool, its DNA not that of the first best
C5_Witness ==
    /\ AfterRound
    /\ child \in Range(gene_pool)
    /\ heap[child].dna # heap[fittest[1]].dna
    /\ Len(heap[child].dna) = Len(target)

C7_SuccessOnStop ==
    pc = "done" => /\ heap[gene_pool[1]].dna = target
                   /\ heap[gene_pool[1]].fitness = 0

\* the loop has stopped on a child it bred, not on an initial candidate
C7_Witness ==
    /\ pc = "done"
    /\ heap[gene_pool[1]].dna = target
    /\ heap[fittest[1]].fitness > 0

\* C8: with a fair random source the loop stops in the end.
C8_Terminates == <>(pc = "done")

\* the loop has stopped after starting with no character right
C8_Witness ==
    /\ pc = "done"
    /\ heap[fittest[1]].fitness = 2
    /\ Len(fittest) >= 3

\* C9 (as claimed): at the termination check of every round the pool is in
\* ascending order of fitness, gene_pool[0] being a fittest member.
C9_SortedAtCheck ==
    AfterRound => /\ IsSorted(heap, gene_pool)
                  /\ \A i \in DOMAIN gene_pool :
                        heap[gene_pool[1]].fitness <= heap[gene_pool[i]].fitness

\* C10 (as claimed): the loop stops in the round in which a candidate with
\* fitness 0 first is a member of the pool, so that the counter it stops
\* with is that generation (generation 1 for an initial candidate).
C10_StopsWhenZeroAppears ==
    [][RoundStep
          => /\ (~HasZero(heap, gene_pool) /\ HasZero(heap', gene_pool'))
                   => pc' = "done"
             /\ (HasZero(heap, gene_pool) /\ generation = 1)
                   => pc' = "done" /\ generation' = 1]_vars

\* C11: every round appends exactly one entry to fittest and leaves the
\* entries already there in place and as they were, DNA and fitness; once
\* generation g has recorded, fittest has g entries.
C11_HistoryAppendOnly ==
    [][(pc = "evolve" /\ vars' # vars)
          => /\ Len(fittest') = Len(fittest) + 1
             /\ Len(fittest') = generation
             /\ \A g \in DOMAIN fittest :
                   /\ fittest'[g] = fittest[g]
                   /\ heap'[fittest[g]] = heap[fittest[g]]]_vars

\* three generations have recorded, the first entry no longer in the pool
C11_Witness ==
    /\ Len(fittest) = 3
    /\ fittest[1] \notin Range(gene_pool)
    /\ heap[fittest[1]].fitness > heap[fittest[3]].fitness

\* C12: the entry a round appends to fittest is a member of the pool of that
\* moment, and no member of that pool has a lower fitness.
C12_HistoryRecordsBest ==
    [][(pc = "evolve" /\ vars' # vars)
          => \E e \in {fittest'[Len(fittest')]} :
                /\ e \in Range(gene_pool)
                /\ \A m \in Range(gene_pool) : heap[e].fitness <= heap[m].fitness]_vars

\* the entry recorded last is a child bred in an earlier round, strictly
\* fitter than the other member
C12_Witness ==
    /\ Len(fittest) >= 2
    /\ fittest[Len(fittest)] # fittest[1]
    /\ \E m \in Range(gene_pool) :
          heap[fittest[Len(fittest)]].fitness < heap[m].fitness

\* C13: for a genome as long as the target, calc_fitness returns 0 exactly
\* when the genome has the target's character at every position.
C13_ZeroIffEqual ==
    ReturnedEqualLength
       => (heap[gene_pool[1]].fitness = 0
              <=> \A i \in 1..Len(target) : heap[gene_pool[1]].dna[i] = target[i])

\* fitness 0 was returned for a two-character genome
C13_Witness ==
    /\ ReturnedEqualLength
    /\ Len(target) = 2
    /\ heap[gene_pool[1]].fitness = 0

\* C14: for a genome as long as the target, calc_fitness returns the sum over
\* all positions of the squared difference of the ordinals, which is never
\* negative.
C14_NonNegativeSumOfSquares ==
    ReturnedEqualLength
       => /\ heap[gene_pool[1]].fitness >= 0
          /\ heap[gene_pool[1]].fitness
                = SquaresOver(1..Len(target), heap[gene_pool[1]].dna, target)

\* a fitness was returned for a genome above the target at one position and
\* two below it at the other: 1 + 4
C14_Witness ==
    /\ ReturnedEqualLength
    /\ Len(target) = 2
    /\ heap[gene_pool[1]].dna[1] = target[1] + 1
    /\ heap[gene_pool[1]].dna[2] = target[2] - 2
    /\ heap[gene_pool[1]].fitness = 5

\* C15: for two strings of equal length, calc_fitness gives the same value
\* whichever of the two is taken as the target.
C15_Symmetric ==
    ReturnedEqualLength
       => heap[gene_pool[1]].fitness
             = calc_fitness(target, heap[gene_pool[1]].dna)

\* a fitness above 0 was returned for a genome below the target at each position
C15_Witness ==
    /\ ReturnedEqualLength
    /\ Len(target) = 2
    /\ \A i \in 1..2 : heap[gene_pool[1]].dna[i] < target[i]
    /\ heap[gene_pool[1]].fitness > 0

\* C16 (as claimed): calc_fitness never returns a value for a genome whose
\* length is not the target's.
C16_MismatchFails ==
    pc = "returned" => Len(heap[gene_pool[1]].dna) = Len(target)

\* C17 (as claimed): no step of the loop fails; chr(ord(c) + d) never raises
\* for a character c of a member of the pool.
C17_NeverRaises == pc # "error"

\* C18: the mutation applies no clamp and no membership check.  In every
\* round, for every member of the pool, every position and every nudge whose
\* chr() does not raise, mutate can return the member's DNA with that position
\* moved by the nudge, in GENES or not; and the child mutate returned is in
\* the pool after the round whenever its fitness is below the worst member's,
\* whatever its characters.
C18_UnclampedMutation ==
    [][RoundStep
          => /\ \E returned \in {{c.dna : c \in Outcomes(Sorted) \ {Raised}}} :
                \A m \in Range(gene_pool) :
                \A i \in DOMAIN heap[m].dna : \A d \in Nudges :
                   ~chr_raises(heap[m].dna[i] + d)
                      => [heap[m].dna EXCEPT ![i] = heap[m].dna[i] + d] \in returned
             /\ heap'[child'].fitness < WorstFitness
                   => child' \in Range(gene_pool')]_vars

\* the child admitted last holds a character that is not in GENES, one step
\* from a character that is; every initial candidate was drawn from GENES
C18_Witness ==
    /\ AfterRound
    /\ GeneSample \subseteq GENES
    /\ child \in Range(gene_pool)
    /\ \E i \in DOMAIN heap[child].dna :
          /\ heap[child].dna[i] \notin GENES
          /\ (heap[child].dna[i] + 1 \in GENES \/ heap[child].dna[i] - 1 \in GENES)

\* C19: for any two members A and B of the pool as parents, any start and
\* stop, any position p and any nudge d for which mutate returns, the child's
\* DNA is as long as A's and holds at every position B's character if the
\* position is in the range from start up to, not including, stop (the two
\* put in order) and A's character otherwise, moved by d at position p alone.
C19_ChildConstruction ==
    pc = "evolve" =>
       \A a \in Range(gene_pool) : \A b \in Range(gene_pool) :
       \A start \in CutIndices(heap[b]) : \A stop \in CutIndices(heap[b]) :
       \A p \in 0..(Len(heap[a].dna) - 1) : \A d \in Nudges :
          ~mutate_raises(heap[a], heap[b], target, start, stop, p, d)
             => \E c \in {mutate(heap[a], heap[b], target, start, stop, p, d).dna} :
                   /\ Len(c) = Len(heap[a].dna)
                   /\ \A i \in 0..(Len(c) - 1) :
                         c[i + 1] = ClaimedChar(heap[a].dna, heap[b].dna,
                                                start, stop, p, d, i)

\* mutate returned "BB@" for the parents "AAA" and "BBB": two positions
\* from the second parent, the third from the first, one ordinal lower
C19_Witness ==
    /\ pc = "returned"
    /\ {heap[m].dna : m \in Range(gene_pool)} = {<<65, 65, 65>>, <<66, 66, 66>>}
    /\ heap[child].dna = <<66, 66, 64>>

\* C20: when mutate returns, every candidate that existed before the call,
\* the parents among them, has the DNA and the fitness it had, and the child
\* is an object that did not exist before, so none of the parents; this for
\* every call, the two parents drawn being the same member or not.
C20_ParentsUntouched ==
    [][BreedReturned
          => /\ \A m \in DOMAIN heap : heap'[m] = heap[m]
             /\ child' \notin DOMAIN heap
             /\ child' \in DOMAIN heap'
             /\ Range(gene_pool') = Range(gene_pool)]_vars

\* mutate returned a child whose DNA is that of no member of the pool, the
\* two members having the DNA they were built with
C20_Witness ==
    /\ pc = "returned"
    /\ child \notin Range(gene_pool)
    /\ \A m \in Range(gene_pool) :
          /\ heap[m].dna \in [1..Len(target) -> GeneSample]
          /\ heap[m].fitness = calc_fitness(heap[m].dna, target)
          /\ heap[m].dna # heap[child].dna

\* C21: every candidate that is a member of the pool or an entry of fittest
\* holds the fitness calc_fitness gives for its DNA and the target, and a
\* candidate that was a member or an entry has, for as long as it exists, the
\* DNA and the fitness it had: the pool is changed by putting another
\* candidate at an index, never by writing into a candidate.
C21_CandidateConsistent ==
    [][/\ \A m \in Range(gene_pool') \cup Range(fittest') :
             heap'[m].fitness = calc_fitness(heap'[m].dna, target')
       /\ \A m \in (Range(gene_pool) \cup Range(fittest)) \cap DOMAIN heap' :
             heap'[m] = heap[m]]_vars

\* a child bred in an earlier round, of fitness 1, is the newest entry of
\* fittest, and the first entry has left the pool
C21_Witness ==
    /\ Len(fittest) >= 2
    /\ fittest[Len(fittest)] # fittest[1]
    /\ fittest[1] \notin Range(gene_pool)
    /\ heap[fittest[Len(fittest)]].fitness = 1
    /\ heap[fittest[Len(fittest)]].dna \notin {target}

\* C22: a run is determined by its target, its pool size and its draws.  A
\* step of the for loop is determined by the DNA drawn.  In a round the pool
\* has exactly one stable ascending order; the child is what mutate returns
\* for some draw from that order; and the order and the child determine the
\* entry recorded, the pool after the replacement, whether the loop stops and
\* the counter.
C22_DeterminedByDraws ==
    [][/\ (pc = "populate" /\ vars' # vars)
             => \E new \in {NewId(heap)} :
                   /\ gene_pool' = Append(gene_pool, new)
                   /\ heap'[new].fitness = calc_fitness(heap'[new].dna, target)
                   /\ \A m \in DOMAIN heap : heap'[m] = heap[m]
                   /\ <<target', fittest', generation', child'>>
                         = <<target, fittest, generation, child>>
       /\ RoundStep
             => \E new \in {NewId(heap)} : \E c \in {heap'[child']} :
                   /\ Cardinality({s \in PermsOf(gene_pool) :
                                      StableSorted(heap, gene_pool, s)}) = 1
                   /\ \A s \in PermsOf(gene_pool) :
                         StableSorted(heap, gene_pool, s)
                            => /\ c \in Outcomes(s)
                               /\ child' = new
                               /\ fittest' = Append(fittest, s[1])
                               /\ gene_pool'
                                     = IF c.fitness < heap[s[Len(s)]].fitness
                                       THEN [s EXCEPT ![Len(s)] = new]
                                       ELSE s
                               /\ pc' = IF heap'[gene_pool'[1]].fitness = 0
                                        THEN "done" ELSE "evolve"
                               /\ generation' = IF pc' = "done" THEN generation
                                                ELSE generation + 1
                               /\ target' = target]_vars

\* two rounds have run, and the pool holds two members of equal fitness and
\* different DNA, so that the order of the next sort hangs on the tie-break
C22_Witness ==
    /\ AfterRound
    /\ Len(fittest) >= 2
    /\ Len(gene_pool) >= 2
    /\ child \notin Range(gene_pool)
    /\ heap[gene_pool[1]].fitness = heap[gene_pool[2]].fitness
    /\ heap[gene_pool[1]].dna # heap[gene_pool[2]].dna

\* C23 (as claimed): for a pool of any size from 1 up, when the loop has
\* stopped the last entry of fittest is a candidate with fitness 0 whose DNA
\* is the target.
C23_WinnerRecorded ==
    pc = "done" => /\ heap[fittest[Len(fittest)]].fitness = 0
                   /\ heap[fittest[Len(fittest)]].dna = target

\* C24: whenever the loop is running and no member of the pool has fitness
\* 0, some draw of the parents, of start and stop, of the position and of the
\* nudge makes mutate return, without raising, a child whose fitness is below
\* the worst member's, which the replacement then puts into the pool.
C24_NoStuckState ==
    (pc = "evolve" /\ ~HasZero(heap, gene_pool)) => CanAccept

\* a round has discarded its child, no member has fitness 0, and the two
\* members have the same DNA
C24_Witness ==
    /\ pc = "evolve"
    /\ Len(fittest) >= 1
    /\ ~HasZero(heap, gene_pool)
    /\ child # None
    /\ child \notin Range(gene_pool)
    /\ \A m \in Range(gene_pool) : heap[m].dna = heap[gene_pool[1]].dna
    /\ CanAccept

\* C25: over a round the highest fitness in the pool does not rise; the sum
\* of the members' fitnesses falls strictly when the child is admitted and
\* stays as it is when the child is discarded; and a member with fitness 0
\* is still a member after the round.
C25_FitnessNeverWorse ==
    [][RoundStep
          => /\ MaxFitness(heap', gene_pool') <= MaxFitness(heap, gene_pool)
             /\ child' \in Range(gene_pool')
                   => TotalFitness(heap', gene_pool', Len(gene_pool'))
                         < TotalFitness(heap, gene_pool, Len(gene_pool))
             /\ child' \notin Range(gene_pool')
                   => TotalFitness(heap', gene_pool', Len(gene_pool'))
                         = TotalFitness(heap, gene_pool, Len(gene_pool))
             /\ \A m \in Range(gene_pool) :
                   heap[m].fitness = 0 => m \in Range(gene_pool')]_vars

\* a round has admitted a child of fitness above 0 to a pool that holds a
\* member of fitness 0, which is still there
C25_Witness ==
    /\ AfterRound
    /\ child \in Range(gene_pool)
    /\ heap[child].fitness > 0
    /\ \E m \in Range(gene_pool) : m # child /\ heap[m].fitness = 0

\* C26: an entry of fittest is the very candidate of the entry before it
\* unless it is strictly fitter than that one; and in a pool of two or more a
\* child whose fitness equals that of the best member is not gene_pool[0],
\* neither after the replacement nor after the next sort.
C26_TiesKeepBest ==
    [][/\ \A g \in 1..(Len(fittest') - 1) :
             fittest'[g + 1] # fittest'[g]
                => heap'[fittest'[g + 1]].fitness < heap'[fittest'[g]].fitness
       /\ (RoundStep /\ Len(gene_pool) >= 2
              /\ heap'[child'].fitness = heap[Sorted[1]].fitness)
             => /\ gene_pool'[1] = Sorted[1]
                /\ sort_pool(heap', gene_pool')[1] = Sorted[1]]_vars

\* a round has admitted a child exactly as fit as the best member, which is
\* still gene_pool[0] and the entry recorded last
C26_Witness ==
    /\ pc = "evolve"
    /\ Len(fittest) >= 1
    /\ child \in Range(gene_pool)
    /\ gene_pool[1] # child
    /\ gene_pool[1] = fittest[Len(fittest)]
    /\ heap[child].fitness = heap[gene_pool[1]].fitness

\* C27 (as claimed): for any two members of the pool as parents and every
\* position, the last one included, at which their characters differ, some
\* draw of start and stop makes the crossover give the child the second
\* parent's character at that position.
C27_CrossoverReachesAll ==
    pc = "evolve" =>
       \A a \in Range(gene_pool) : \A b \in Range(gene_pool) :
       \A i \in 0..(Len(heap[a].dna) - 1) :
          heap[a].dna[i + 1] # heap[b].dna[i + 1]
             => \E start \in CutIndices(heap[b]) : \E stop \in CutIndices(heap[b]) :
                   crossover(heap[a].dna, heap[b].dna, start, stop)[i + 1]
                      = heap[b].dna[i + 1]

=============================================================================
